---- MODULE Spec2Model ----
(***************************************************************************)
(* Model of src/core/lib/security/security_connector/ssl_utils.cc:         *)
(* the default SSL root store (lazy, once-initialised), the conversion     *)
(* between a tsi_peer and a grpc_auth_context, the call-host check, the    *)
(* client handshaker factory set-up and the session cache channel arg.     *)
(*                                                                         *)
(* Conventions.  A C pointer is a sequence of length at most one: <<>> is  *)
(* nullptr and <<v>> points at v.  A grpc_slice and a C string are         *)
(* sequences (of byte numbers, or of one-character strings for names).     *)
(***************************************************************************)
EXTENDS Integers, Sequences, FiniteSets, TLC

VARIABLES
  \* process-wide configuration and environment of the root store
  default_ssl_roots_file_path,   \* GPR_GLOBAL_CONFIG grpc_default_ssl_roots_file_path
  not_use_system_ssl_roots,      \* GPR_GLOBAL_CONFIG grpc_not_use_system_ssl_roots
  ssl_roots_override_cb,         \* static callback pointer
  fs,                            \* file system: path -> pointer to file content
  system_roots,                  \* what the OS trust store yields
  \* DefaultSslRootStore
  once,                          \* the static gpr_once of InitRootStore
  default_pem_root_certs_,       \* grpc_slice
  default_root_store_,           \* tsi_ssl_root_certs_store*
  pc, op, calls, returned,       \* threads calling the accessors
  init_runs, compute_log,        \* history of InitRootStoreOnce / ComputePemRootCerts
  aborted,                       \* a GPR_ASSERT failed: the process is gone
  \* grpc_ssl_tsi_client_handshaker_factory_init
  client_call,
  \* peer <-> auth context, call host check
  peer, ctx, shallow, call_host,
  \* session cache
  cache_refs, cache_released, cache_capacity, holders, copies, use_after_free, cmp_log

rootVars == <<default_ssl_roots_file_path, not_use_system_ssl_roots,
              ssl_roots_override_cb, fs, system_roots, once,
              default_pem_root_certs_, default_root_store_, pc, op, calls,
              returned, init_runs, compute_log>>
clientVars == <<client_call>>
peerVars == <<peer, ctx, shallow, call_host>>
cacheVars == <<cache_refs, cache_released, cache_capacity, holders, copies,
               use_after_free, cmp_log>>
vars == <<rootVars, aborted, clientVars, peerVars, cacheVars>>

(* ------------------------------ bounds -------------------------------- *)
NumThreads == 2
MaxCalls == 3
MaxProps == 3
MaxCopies == 4
MaxCapacity == 2

(* ----------------------------- pointers ------------------------------- *)
nullptr == <<>>
Ptr(v) == <<v>>
Deref(p) == p[1]

(* ------------------------------ slices -------------------------------- *)
grpc_empty_slice == <<>>
GRPC_SLICE_IS_EMPTY(s) == Len(s) = 0
NUL == 0

(* ------------------------- files and paths ---------------------------- *)
installed_roots_path == "/usr/share/grpc/roots.pem"
ConfiguredPath == "/etc/ssl/configured_roots.pem"
Paths == {ConfiguredPath, installed_roots_path}

\* grpc_load_file(path, add_null_terminator, &result): on an I/O error the
\* output is the empty slice (the error is only logged by the caller).
grpc_load_file(files, path, add_null_terminator) ==
  IF files[path] = nullptr THEN grpc_empty_slice
  ELSE IF add_null_terminator = 1 THEN Deref(files[path]) \o <<NUL>>
  ELSE Deref(files[path])

\* grpc_slice_from_copied_buffer(pem_root_certs, strlen(pem_root_certs) + 1)
slice_from_c_string(s) == s \o <<NUL>>

\* LoadSystemRootCerts(): what the platform's trust store yields.
LoadSystemRootCerts(sys) == sys

(* ----------------------- override callback ---------------------------- *)
GRPC_SSL_ROOTS_OVERRIDE_OK == "GRPC_SSL_ROOTS_OVERRIDE_OK"
GRPC_SSL_ROOTS_OVERRIDE_FAIL_PERMANENTLY == "GRPC_SSL_ROOTS_OVERRIDE_FAIL_PERMANENTLY"
GRPC_SSL_ROOTS_OVERRIDE_FAIL == "GRPC_SSL_ROOTS_OVERRIDE_FAIL"

\* A callback is what it returns and what it stores in *pem_root_certs.
Callbacks ==
  { [res |-> GRPC_SSL_ROOTS_OVERRIDE_OK, pem |-> Ptr(<<4>>)],
    [res |-> GRPC_SSL_ROOTS_OVERRIDE_OK, pem |-> Ptr(<<>>)],
    [res |-> GRPC_SSL_ROOTS_OVERRIDE_OK, pem |-> nullptr],
    [res |-> GRPC_SSL_ROOTS_OVERRIDE_FAIL_PERMANENTLY, pem |-> nullptr],
    [res |-> GRPC_SSL_ROOTS_OVERRIDE_FAIL, pem |-> nullptr] }

(* --------------------- ComputePemRootCerts ---------------------------- *)
\* The four sources, in the order of the code.
SrcConfigured == "configured_file"
SrcOverride == "override_callback"
SrcSystem == "os_trust_store"
SrcInstalled == "installed_file"

\* if (strlen(default_root_certs_path.get()) > 0)
TryConfiguredFile(path) == Len(path) > 0

\* if (GRPC_SLICE_IS_EMPTY(result) && ssl_roots_override_cb != nullptr)
TryOverrideCallback(result, cb) == GRPC_SLICE_IS_EMPTY(result) /\ cb # nullptr

\* Variant: fail-permanently would also skip the OS trust store.
TrySystemRoots_unless_fail_permanently(result, not_use_system_roots, ovrd_res) ==
  /\ GRPC_SLICE_IS_EMPTY(result)
  /\ ~not_use_system_roots
  /\ ovrd_res # GRPC_SSL_ROOTS_OVERRIDE_FAIL_PERMANENTLY

\* if (GRPC_SLICE_IS_EMPTY(result) && !not_use_system_roots)
\* (ovrd_res is in scope at that line and is not consulted)
TrySystemRoots(result, not_use_system_roots, ovrd_res) ==
  GRPC_SLICE_IS_EMPTY(result) /\ ~not_use_system_roots

\* Variant: the installed file would be tried whatever the callback returned.
TryInstalledFile_always(result, ovrd_res) == GRPC_SLICE_IS_EMPTY(result)

\* Variant: the installed file would never be tried.
TryInstalledFile_never(result, ovrd_res) == FALSE

\* if (GRPC_SLICE_IS_EMPTY(result) &&
\*     ovrd_res != GRPC_SSL_ROOTS_OVERRIDE_FAIL_PERMANENTLY)
TryInstalledFile(result, ovrd_res) ==
  GRPC_SLICE_IS_EMPTY(result) /\ ovrd_res # GRPC_SSL_ROOTS_OVERRIDE_FAIL_PERMANENTLY

\* The computation, source by source.  `tried` lists the sources attempted,
\* `got` what result held after each attempt, `assert_failed` is the
\* GPR_ASSERT(pem_root_certs != nullptr) of the override branch.
ComputePemRootCerts(path, cb, not_use_system_roots, files, sys) ==
  LET r0 == grpc_empty_slice
      try1 == TryConfiguredFile(path)
      r1 == IF try1 THEN grpc_load_file(files, path, 1) ELSE r0
      try2 == TryOverrideCallback(r1, cb)
      ovrd_res == IF try2 THEN Deref(cb).res ELSE GRPC_SSL_ROOTS_OVERRIDE_FAIL
      ok2 == try2 /\ ovrd_res = GRPC_SSL_ROOTS_OVERRIDE_OK
      assert_failed == ok2 /\ Deref(cb).pem = nullptr
      r2 == IF ok2 /\ ~assert_failed
              THEN slice_from_c_string(Deref(Deref(cb).pem)) ELSE r1
      try3 == TrySystemRoots(r2, not_use_system_roots, ovrd_res)
      r3 == IF try3 THEN LoadSystemRootCerts(sys) ELSE r2
      try4 == TryInstalledFile(r3, ovrd_res)
      r4 == IF try4 THEN grpc_load_file(files, installed_roots_path, 1) ELSE r3
      tried == (IF try1 THEN <<SrcConfigured>> ELSE <<>>)
               \o (IF try2 THEN <<SrcOverride>> ELSE <<>>)
               \o (IF try3 THEN <<SrcSystem>> ELSE <<>>)
               \o (IF try4 THEN <<SrcInstalled>> ELSE <<>>)
      got == (IF try1 THEN <<r1>> ELSE <<>>)
             \o (IF try2 THEN <<r2>> ELSE <<>>)
             \o (IF try3 THEN <<r3>> ELSE <<>>)
             \o (IF try4 THEN <<r4>> ELSE <<>>)
  IN [result |-> r4, tried |-> tried, got |-> got, ovrd_res |-> ovrd_res,
      assert_failed |-> assert_failed,
      path |-> path, cb |-> cb, not_use_system_roots |-> not_use_system_roots,
      files |-> files, sys |-> sys]

(* ------------------------ DefaultSslRootStore ------------------------- *)
Threads == 1 .. NumThreads
GetPemRootCertsOp == "GetPemRootCerts"
GetRootStoreOp == "GetRootStore"
Ops == {GetPemRootCertsOp, GetRootStoreOp}

GPR_ONCE_INIT == "GPR_ONCE_INIT"
ONCE_RUNNING == "running"
ONCE_DONE == "done"

\* tsi_ssl_root_certs_store_create(pem): a handle, or nullptr when the PEM
\* cannot be parsed.
tsi_ssl_root_certs_store_create(pem, parse_ok) ==
  IF parse_ok THEN Ptr([store_of |-> pem]) ELSE nullptr

\* grpc_set_ssl_roots_override_callback(cb)
grpc_set_ssl_roots_override_callback(cb) ==
  /\ ~aborted
  /\ ssl_roots_override_cb' = cb
  /\ ssl_roots_override_cb' # ssl_roots_override_cb
  /\ UNCHANGED <<default_ssl_roots_file_path, not_use_system_ssl_roots, fs,
                 system_roots, once, default_pem_root_certs_,
                 default_root_store_, pc, op, calls, returned, init_runs,
                 compute_log, aborted, clientVars, peerVars, cacheVars>>

\* A thread enters GetPemRootCerts() or GetRootStore().
Call(t, o) ==
  /\ ~aborted
  /\ pc[t] = "idle"
  /\ calls < MaxCalls
  /\ calls' = calls + 1
  /\ op' = [op EXCEPT ![t] = o]
  /\ pc' = [pc EXCEPT ![t] = "InitRootStore"]
  /\ UNCHANGED <<default_ssl_roots_file_path, not_use_system_ssl_roots,
                 ssl_roots_override_cb, fs, system_roots, once,
                 default_pem_root_certs_, default_root_store_, returned,
                 init_runs, compute_log, aborted, clientVars, peerVars,
                 cacheVars>>

\* gpr_once_init(&once, init_function): the first caller runs the function,
\* a caller arriving while it runs waits, a caller arriving after it has
\* completed goes on at once.
gpr_once_init(t) ==
  \/ /\ once = GPR_ONCE_INIT
     /\ once' = ONCE_RUNNING
     /\ pc' = [pc EXCEPT ![t] = "InitRootStoreOnce"]
  \/ /\ once = ONCE_DONE
     /\ once' = once
     /\ pc' = [pc EXCEPT ![t] = "return"]

\* Variant: InitRootStore would call InitRootStoreOnce directly, with no once.
InitRootStore_no_once(t) ==
  /\ ~aborted
  /\ pc[t] = "InitRootStore"
  /\ once' = once
  /\ pc' = [pc EXCEPT ![t] = "InitRootStoreOnce"]
  /\ UNCHANGED <<default_ssl_roots_file_path, not_use_system_ssl_roots,
                 ssl_roots_override_cb, fs, system_roots,
                 default_pem_root_certs_, default_root_store_, op, calls,
                 returned, init_runs, compute_log, aborted, clientVars,
                 peerVars, cacheVars>>

\* DefaultSslRootStore::InitRootStore()
InitRootStore(t) ==
  /\ ~aborted
  /\ pc[t] = "InitRootStore"
  /\ gpr_once_init(t)
  /\ UNCHANGED <<default_ssl_roots_file_path, not_use_system_ssl_roots,
                 ssl_roots_override_cb, fs, system_roots,
                 default_pem_root_certs_, default_root_store_, op, calls,
                 returned, init_runs, compute_log, aborted, clientVars,
                 peerVars, cacheVars>>

\* InitRootStoreOnce(), first statement:
\*   default_pem_root_certs_ = ComputePemRootCerts();
InitRootStoreOnce_compute(t) ==
  LET c == ComputePemRootCerts(default_ssl_roots_file_path,
                               ssl_roots_override_cb,
                               not_use_system_ssl_roots, fs, system_roots)
  IN /\ ~aborted
     /\ pc[t] = "InitRootStoreOnce"
     /\ init_runs' = init_runs + 1
     /\ compute_log' = Ptr(c)
     /\ IF c.assert_failed
          THEN /\ aborted' = TRUE
               /\ UNCHANGED <<default_pem_root_certs_, pc>>
          ELSE /\ aborted' = aborted
               /\ default_pem_root_certs_' = c.result
               /\ pc' = [pc EXCEPT ![t] = "InitRootStoreOnce_store"]
     /\ UNCHANGED <<default_ssl_roots_file_path, not_use_system_ssl_roots,
                    ssl_roots_override_cb, fs, system_roots, once,
                    default_root_store_, op, calls, returned, clientVars,
                    peerVars, cacheVars>>

\* Variant: the store would be created without the emptiness test.
StoreAfterInit_unconditional(pem, old_store, parse_ok) ==
  tsi_ssl_root_certs_store_create(pem, parse_ok)

\* The store a run of InitRootStoreOnce leaves, given the bytes it computed.
StoreAfterInit(pem, old_store, parse_ok) ==
  IF ~GRPC_SLICE_IS_EMPTY(pem)
    THEN tsi_ssl_root_certs_store_create(pem, parse_ok)
    ELSE old_store

\* InitRootStoreOnce(), the rest: create the store from non-empty bytes; on
\* return gpr_once_init marks the once as completed.
InitRootStoreOnce_store(t, parse_ok) ==
  /\ ~aborted
  /\ pc[t] = "InitRootStoreOnce_store"
  /\ default_root_store_' =
        StoreAfterInit(default_pem_root_certs_, default_root_store_, parse_ok)
  /\ once' = ONCE_DONE
  /\ pc' = [pc EXCEPT ![t] = "return"]
  /\ UNCHANGED <<default_ssl_roots_file_path, not_use_system_ssl_roots,
                 ssl_roots_override_cb, fs, system_roots,
                 default_pem_root_certs_, op, calls, returned, init_runs,
                 compute_log, aborted, clientVars, peerVars, cacheVars>>

\* What GetPemRootCerts() returns after InitRootStore().
GetPemRootCerts_value(pem) ==
  IF GRPC_SLICE_IS_EMPTY(pem) THEN nullptr ELSE Ptr(pem)

\* What GetRootStore() returns after InitRootStore().
GetRootStore_value(store) == store

\* The accessor's return statement.
Return(t) ==
  /\ ~aborted
  /\ pc[t] = "return"
  /\ returned' = returned \cup
       { [op |-> op[t],
          val |-> IF op[t] = GetPemRootCertsOp
                    THEN GetPemRootCerts_value(default_pem_root_certs_)
                    ELSE GetRootStore_value(default_root_store_)] }
  /\ pc' = [pc EXCEPT ![t] = "idle"]
  /\ op' = [op EXCEPT ![t] = GetPemRootCertsOp]
  /\ UNCHANGED <<default_ssl_roots_file_path, not_use_system_ssl_roots,
                 ssl_roots_override_cb, fs, system_roots, once,
                 default_pem_root_certs_, default_root_store_, calls,
                 init_runs, compute_log, aborted, clientVars, peerVars,
                 cacheVars>>

(* -------------------------- initial states ---------------------------- *)
FileContents == {nullptr, Ptr(<<>>), Ptr(<<1>>)}
InstalledContents == {nullptr, Ptr(<<3>>)}
SystemRootsChoices == {grpc_empty_slice, <<2, NUL>>}

RootInitFixed ==
  /\ default_ssl_roots_file_path = ""
  /\ not_use_system_ssl_roots = FALSE
  /\ ssl_roots_override_cb = nullptr
  /\ fs = [p \in Paths |-> nullptr]
  /\ system_roots = grpc_empty_slice
  /\ once = GPR_ONCE_INIT
  /\ default_pem_root_certs_ = grpc_empty_slice
  /\ default_root_store_ = nullptr
  /\ pc = [t \in Threads |-> "idle"]
  /\ op = [t \in Threads |-> GetPemRootCertsOp]
  /\ calls = 0
  /\ returned = {}
  /\ init_runs = 0
  /\ compute_log = nullptr

RootInit ==
  /\ default_ssl_roots_file_path \in {"", ConfiguredPath}
  /\ not_use_system_ssl_roots \in BOOLEAN
  /\ ssl_roots_override_cb = nullptr
  \* with no path configured the file at ConfiguredPath is never opened:
  \* one file system stands for them all
  /\ \E cf \in FileContents, inst \in InstalledContents :
        /\ default_ssl_roots_file_path = "" => cf = nullptr
        /\ fs = [p \in Paths |-> IF p = ConfiguredPath THEN cf ELSE inst]
  /\ system_roots \in SystemRootsChoices
  /\ once = GPR_ONCE_INIT
  /\ default_pem_root_certs_ = grpc_empty_slice
  /\ default_root_store_ = nullptr
  /\ pc = [t \in Threads |-> "idle"]
  /\ op = [t \in Threads |-> GetPemRootCertsOp]
  /\ calls = 0
  /\ returned = {}
  /\ init_runs = 0
  /\ compute_log = nullptr

ClientInitFixed == client_call = nullptr

PeerInitFixed ==
  /\ peer = <<>>
  /\ ctx = nullptr
  /\ shallow = nullptr
  /\ call_host = nullptr

CacheInitFixed ==
  /\ cache_refs = 0
  /\ cache_released = 0
  /\ cache_capacity = 0
  /\ holders = {}
  /\ copies = 0
  /\ use_after_free = FALSE
  /\ cmp_log = nullptr

Init ==
  /\ RootInit
  /\ aborted = FALSE
  /\ ClientInitFixed
  /\ PeerInitFixed
  /\ CacheInitFixed

Next ==
  \/ \E cb \in {nullptr} \cup {Ptr(c) : c \in Callbacks} :
        grpc_set_ssl_roots_override_callback(cb)
  \/ \E t \in Threads, o \in Ops : Call(t, o)
  \/ \E t \in Threads : InitRootStore(t)
  \/ \E t \in Threads : InitRootStoreOnce_compute(t)
  \/ \E t \in Threads, parse_ok \in BOOLEAN : InitRootStoreOnce_store(t, parse_ok)
  \/ \E t \in Threads : Return(t)

Spec == Init /\ [][Next]_vars

(* ============= grpc_ssl_tsi_client_handshaker_factory_init ============ *)
GRPC_SECURITY_OK == "GRPC_SECURITY_OK"
GRPC_SECURITY_ERROR == "GRPC_SECURITY_ERROR"
TSI_OK == "TSI_OK"
TSI_INVALID_ARGUMENT == "TSI_INVALID_ARGUMENT"
TsiResults == {TSI_OK, TSI_INVALID_ARGUMENT}

\* The compiled-in default of the grpc_ssl_cipher_suites configuration.
DefaultCipherSuites ==
  "ECDHE-ECDSA-AES128-GCM-SHA256:ECDHE-ECDSA-AES256-GCM-SHA384:ECDHE-RSA-AES128-GCM-SHA256:ECDHE-RSA-AES256-GCM-SHA384"

\* grpc_get_ssl_cipher_suites()
grpc_get_ssl_cipher_suites == DefaultCipherSuites

\* Variant: the default roots would never be fetched.
UseDefaultRoots_never(pem_root_certs) == FALSE

\* if (pem_root_certs == nullptr)
UseDefaultRoots(pem_root_certs) == pem_root_certs = nullptr

\* Variant: missing default roots would not end the call.
DefaultRootsMissing_never(root_certs) == FALSE

\* if (root_certs == nullptr) { ... return GRPC_SECURITY_ERROR; }
DefaultRootsMissing(root_certs) == root_certs = nullptr

\* Variant: the engine's result would be ignored.
ClientStatus_always_ok(result) == GRPC_SECURITY_OK

\* if (result != TSI_OK) return GRPC_SECURITY_ERROR; return GRPC_SECURITY_OK;
ClientStatus(result) ==
  IF result # TSI_OK THEN GRPC_SECURITY_ERROR ELSE GRPC_SECURITY_OK

\* has_key_cert_pair
HasKeyCertPair(pair) ==
  /\ pair # nullptr
  /\ Deref(pair).private_key # nullptr
  /\ Deref(pair).cert_chain # nullptr

\* The whole call, InitRootStore (inside GetPemRootCerts and GetRootStore)
\* included.  engine_result is what
\* tsi_create_ssl_client_handshaker_factory_with_options returns when it is
\* called, parse_ok whether the default roots parse if they are created now.
grpc_ssl_tsi_client_handshaker_factory_init(pem_key_cert_pair, pem_root_certs, ssl_session_cache, engine_result, parse_ok) ==
  LET use_default == UseDefaultRoots(pem_root_certs)
      run_init == use_default /\ once = GPR_ONCE_INIT
      c == ComputePemRootCerts(default_ssl_roots_file_path,
                               ssl_roots_override_cb,
                               not_use_system_ssl_roots, fs, system_roots)
      pem_after == IF run_init THEN c.result ELSE default_pem_root_certs_
      store_after == IF run_init
                       THEN StoreAfterInit(pem_after, default_root_store_, parse_ok)
                       ELSE default_root_store_
      root_certs == IF use_default THEN GetPemRootCerts_value(pem_after)
                    ELSE pem_root_certs
      early_error == use_default /\ DefaultRootsMissing(root_certs)
      root_store == IF use_default THEN GetRootStore_value(store_after)
                    ELSE nullptr
      options == [pem_root_certs |-> root_certs,
                  root_store |-> root_store,
                  pem_key_cert_pair |->
                    IF HasKeyCertPair(pem_key_cert_pair)
                      THEN pem_key_cert_pair ELSE nullptr,
                  cipher_suites |-> grpc_get_ssl_cipher_suites,
                  session_cache |-> ssl_session_cache]
  IN /\ ~aborted
     /\ once # ONCE_RUNNING
     /\ IF run_init /\ c.assert_failed
          THEN /\ aborted' = TRUE
               /\ init_runs' = init_runs + 1
               /\ compute_log' = Ptr(c)
               /\ once' = ONCE_RUNNING
               /\ client_call' = nullptr   \* the call never returns
               /\ UNCHANGED <<default_pem_root_certs_, default_root_store_>>
          ELSE /\ aborted' = aborted
               /\ init_runs' = IF run_init THEN init_runs + 1 ELSE init_runs
               /\ compute_log' = IF run_init THEN Ptr(c) ELSE compute_log
               /\ once' = IF run_init THEN ONCE_DONE ELSE once
               /\ default_pem_root_certs_' = pem_after
               /\ default_root_store_' = store_after
               /\ client_call' =
                    Ptr([pem_root_certs |-> pem_root_certs,
                         once_before |-> once,
                         engine_called |-> ~early_error,
                         options |-> IF early_error THEN nullptr ELSE Ptr(options),
                         engine_result |-> IF early_error THEN nullptr
                                           ELSE Ptr(engine_result),
                         status |-> IF early_error THEN GRPC_SECURITY_ERROR
                                    ELSE ClientStatus(engine_result)])
     /\ UNCHANGED <<default_ssl_roots_file_path, not_use_system_ssl_roots,
                    ssl_roots_override_cb, fs, system_roots, pc, op, calls,
                    returned, peerVars, cacheVars>>

KeyCertPairs ==
  {Ptr([private_key |-> Ptr("key"), cert_chain |-> Ptr("chain")]),
   Ptr([private_key |-> nullptr, cert_chain |-> Ptr("chain")])}
ExplicitRoots == {nullptr, Ptr(<<>>), Ptr(<<7>>)}
SessionCaches == {Ptr("session_cache")}

InitClient ==
  /\ RootInit
  /\ aborted = FALSE
  /\ ClientInitFixed
  /\ PeerInitFixed
  /\ CacheInitFixed

NextClient ==
  \/ \E cb \in {nullptr} \cup {Ptr(c) : c \in Callbacks} :
        grpc_set_ssl_roots_override_callback(cb)
  \/ \E pair \in KeyCertPairs, roots \in ExplicitRoots,
        cache \in SessionCaches, res \in TsiResults, parse_ok \in BOOLEAN :
        grpc_ssl_tsi_client_handshaker_factory_init(pair, roots, cache, res,
                                                    parse_ok)

SpecClient == InitClient /\ [][NextClient]_vars

(* =================== peer <-> auth context ============================ *)
TSI_X509_SUBJECT_COMMON_NAME_PEER_PROPERTY == "x509_subject_common_name"
TSI_X509_SUBJECT_ALTERNATIVE_NAME_PEER_PROPERTY == "x509_subject_alternative_name"
TSI_X509_PEM_CERT_PROPERTY == "x509_pem_cert"
TSI_SSL_SESSION_REUSED_PEER_PROPERTY == "ssl_session_reused"
GRPC_X509_CN_PROPERTY_NAME == "x509_common_name"
GRPC_X509_SAN_PROPERTY_NAME == "x509_subject_alternative_name"
GRPC_X509_PEM_CERT_PROPERTY_NAME == "x509_pem_cert"
GRPC_SSL_SESSION_REUSED_PROPERTY == "ssl_session_reused"
GRPC_TRANSPORT_SECURITY_TYPE_PROPERTY_NAME == "transport_security_type"
GRPC_SSL_TRANSPORT_SECURITY_TYPE == <<"s", "s", "l">>

\* grpc_auth_context: its properties in insertion order and the designated
\* peer identity property name.
EmptyAuthContext ==
  [properties |-> <<>>, peer_identity_property_name |-> nullptr]

\* grpc_auth_context_add_property / grpc_auth_context_add_cstring_property
grpc_auth_context_add_property(c, name, value) ==
  [c EXCEPT !.properties = Append(@, [name |-> name, value |-> value])]

\* grpc_auth_context_set_peer_identity_property_name: 1 and the name is
\* designated when a property of that name exists, 0 and no change otherwise.
grpc_auth_context_set_peer_identity_property_name(c, name) ==
  IF \E i \in 1 .. Len(c.properties) : c.properties[i].name = name
    THEN [ctx |-> [c EXCEPT !.peer_identity_property_name = Ptr(name)], ret |-> 1]
    ELSE [ctx |-> c, ret |-> 0]

\* Variant: a common name would designate CN even after a SAN.
IdentityOnCN_always(current) == Ptr(GRPC_X509_CN_PROPERTY_NAME)

\* if (peer_identity_property_name == nullptr)
\*   peer_identity_property_name = GRPC_X509_CN_PROPERTY_NAME;
IdentityOnCN(current) ==
  IF current = nullptr THEN Ptr(GRPC_X509_CN_PROPERTY_NAME) ELSE current

\* peer_identity_property_name = GRPC_X509_SAN_PROPERTY_NAME;
IdentityOnSAN(current) == Ptr(GRPC_X509_SAN_PROPERTY_NAME)

\* One iteration of the loop over peer->properties.
PeerLoopBody(prop, st) ==
  IF prop.name = nullptr THEN st
  ELSE IF Deref(prop.name) = TSI_X509_SUBJECT_COMMON_NAME_PEER_PROPERTY
    THEN [ctx |-> grpc_auth_context_add_property(
                    st.ctx, GRPC_X509_CN_PROPERTY_NAME, prop.value),
          identity |-> IdentityOnCN(st.identity)]
  ELSE IF Deref(prop.name) = TSI_X509_SUBJECT_ALTERNATIVE_NAME_PEER_PROPERTY
    THEN [ctx |-> grpc_auth_context_add_property(
                    st.ctx, GRPC_X509_SAN_PROPERTY_NAME, prop.value),
          identity |-> IdentityOnSAN(st.identity)]
  ELSE IF Deref(prop.name) = TSI_X509_PEM_CERT_PROPERTY
    THEN [st EXCEPT !.ctx = grpc_auth_context_add_property(
                              @, GRPC_X509_PEM_CERT_PROPERTY_NAME, prop.value)]
  ELSE IF Deref(prop.name) = TSI_SSL_SESSION_REUSED_PEER_PROPERTY
    THEN [st EXCEPT !.ctx = grpc_auth_context_add_property(
                              @, GRPC_SSL_SESSION_REUSED_PROPERTY, prop.value)]
  ELSE st

RECURSIVE PeerLoop(_, _, _)
\* for (i = 0; i < peer->property_count; i++)
PeerLoop(props, i, st) ==
  IF i > Len(props) THEN st
  ELSE PeerLoop(props, i + 1, PeerLoopBody(props[i], st))

\* grpc_ssl_peer_to_auth_context(peer): the context, and whether one of the
\* two GPR_ASSERTs failed.
grpc_ssl_peer_to_auth_context(props) ==
  IF ~(Len(props) >= 1) THEN [ctx |-> EmptyAuthContext, assert_failed |-> TRUE]
  ELSE
    LET c0 == grpc_auth_context_add_property(
                EmptyAuthContext, GRPC_TRANSPORT_SECURITY_TYPE_PROPERTY_NAME,
                GRPC_SSL_TRANSPORT_SECURITY_TYPE)
        st == PeerLoop(props, 1, [ctx |-> c0, identity |-> nullptr])
    IN IF st.identity # nullptr
         THEN LET r == grpc_auth_context_set_peer_identity_property_name(
                         st.ctx, Deref(st.identity))
              IN [ctx |-> r.ctx, assert_failed |-> r.ret # 1]
         ELSE [ctx |-> st.ctx, assert_failed |-> FALSE]

\* Variant: the session-reused property would be copied back too.
ShallowName_with_session_reused(name) ==
  IF name = GRPC_X509_SAN_PROPERTY_NAME
    THEN Ptr(TSI_X509_SUBJECT_ALTERNATIVE_NAME_PEER_PROPERTY)
  ELSE IF name = GRPC_X509_CN_PROPERTY_NAME
    THEN Ptr(TSI_X509_SUBJECT_COMMON_NAME_PEER_PROPERTY)
  ELSE IF name = GRPC_X509_PEM_CERT_PROPERTY_NAME
    THEN Ptr(TSI_X509_PEM_CERT_PROPERTY)
  ELSE IF name = GRPC_SSL_SESSION_REUSED_PROPERTY
    THEN Ptr(TSI_SSL_SESSION_REUSED_PEER_PROPERTY)
  ELSE nullptr

\* The strcmp chain of grpc_shallow_peer_from_ssl_auth_context: the peer
\* property name a context property is copied under, nullptr when skipped.
ShallowName(name) ==
  IF name = GRPC_X509_SAN_PROPERTY_NAME
    THEN Ptr(TSI_X509_SUBJECT_ALTERNATIVE_NAME_PEER_PROPERTY)
  ELSE IF name = GRPC_X509_CN_PROPERTY_NAME
    THEN Ptr(TSI_X509_SUBJECT_COMMON_NAME_PEER_PROPERTY)
  ELSE IF name = GRPC_X509_PEM_CERT_PROPERTY_NAME
    THEN Ptr(TSI_X509_PEM_CERT_PROPERTY)
  ELSE nullptr

\* add_shallow_auth_property_to_peer(peer, prop, tsi_prop_name)
add_shallow_auth_property_to_peer(p, prop, tsi_prop_name) ==
  [p EXCEPT !.properties = Append(@, [name |-> Ptr(tsi_prop_name),
                                      value |-> prop.value]),
            !.property_count = @ + 1]

RECURSIVE ShallowLoop(_, _, _)
\* while ((prop = grpc_auth_property_iterator_next(&it)) != nullptr)
ShallowLoop(props, i, p) ==
  IF i > Len(props) THEN p
  ELSE ShallowLoop(props, i + 1,
         IF ShallowName(props[i].name) # nullptr
           THEN add_shallow_auth_property_to_peer(
                  p, props[i], Deref(ShallowName(props[i].name)))
           ELSE p)

\* grpc_shallow_peer_from_ssl_auth_context(auth_context); allocated is the
\* number of tsi_peer_property slots the array was given.
grpc_shallow_peer_from_ssl_auth_context(c) ==
  LET max_num_props == Len(c.properties)
      p0 == [properties |-> <<>>, property_count |-> 0, allocated |-> 0]
  IN IF max_num_props > 0
       THEN ShallowLoop(c.properties, 1, [p0 EXCEPT !.allocated = max_num_props])
       ELSE p0

(* ----------------------------- name matching -------------------------- *)
Colons(name) == {i \in 1 .. Len(name) : name[i] = ":"}

\* grpc_core::SplitHostPort, host part, for a name that is not bracketed:
\* with exactly one colon the host is what precedes it, otherwise the name.
SplitHostPort_host(name) ==
  IF Cardinality(Colons(name)) = 1
    THEN SubSeq(name, 1, (CHOOSE i \in Colons(name) : TRUE) - 1)
    ELSE name

\* tsi_ssl_peer_matches_name: a subject alternative name equal to the name,
\* or, when the peer has no subject alternative name, a common name equal to
\* it (wildcard entries are not modelled).
tsi_ssl_peer_matches_name(props, name) ==
  LET IsSan(i) == props[i].name = Ptr(TSI_X509_SUBJECT_ALTERNATIVE_NAME_PEER_PROPERTY)
      IsCn(i) == props[i].name = Ptr(TSI_X509_SUBJECT_COMMON_NAME_PEER_PROPERTY)
      idx == 1 .. Len(props)
  IN IF \/ \E i \in idx : IsSan(i) /\ props[i].value = name
        \/ /\ ~\E i \in idx : IsSan(i)
           /\ \E i \in idx : /\ IsCn(i)
                              /\ \A j \in idx : IsCn(j) => j <= i
                              /\ props[i].value = name
       THEN 1 ELSE 0

\* grpc_ssl_host_matches_name(peer, peer_name)
grpc_ssl_host_matches_name(props, peer_name) ==
  LET allocated_name == SplitHostPort_host(peer_name)
      zone_ids == {i \in 1 .. Len(allocated_name) : allocated_name[i] = "%"}
      zone_id == IF zone_ids = {} THEN 0
                 ELSE CHOOSE i \in zone_ids : \A j \in zone_ids : i <= j
      stripped == IF zone_id # 0 THEN SubSeq(allocated_name, 1, zone_id - 1)
                  ELSE allocated_name
  IN IF Len(allocated_name) = 0 THEN 0
     ELSE tsi_ssl_peer_matches_name(props, stripped)

(* --------------------------- call host check -------------------------- *)
GRPC_ERROR_NONE == "GRPC_ERROR_NONE"
CallHostMismatchError == "call host does not match SSL server name"

\* Variant: the overridden target name would not be consulted.
CallHostStatus_ignores_override(matches, host, target_name, overridden_target_name) ==
  IF matches # 0 THEN GRPC_SECURITY_OK ELSE GRPC_SECURITY_ERROR

\* status after the two ifs of grpc_ssl_check_call_host
CallHostStatus(matches, host, target_name, overridden_target_name) ==
  LET s0 == GRPC_SECURITY_ERROR
      s1 == IF matches # 0 THEN GRPC_SECURITY_OK ELSE s0
  IN IF Len(overridden_target_name) # 0 /\ host = target_name
       THEN GRPC_SECURITY_OK ELSE s1

\* grpc_ssl_check_call_host: the value returned and *error afterwards.
grpc_ssl_check_call_host(host, target_name, overridden_target_name, c, error_in) ==
  LET p == grpc_shallow_peer_from_ssl_auth_context(c)
      status == CallHostStatus(grpc_ssl_host_matches_name(p.properties, host),
                               host, target_name, overridden_target_name)
  IN [ret |-> TRUE,
      error |-> IF status # GRPC_SECURITY_OK THEN CallHostMismatchError
                ELSE error_in]

(* ------------------------------ actions ------------------------------- *)
PeerToAuthContext ==
  LET r == grpc_ssl_peer_to_auth_context(peer)
  IN /\ ~aborted
     /\ ctx = nullptr
     /\ IF r.assert_failed
          THEN aborted' = TRUE /\ ctx' = ctx
          ELSE aborted' = aborted /\ ctx' = Ptr(r.ctx)
     /\ UNCHANGED <<rootVars, clientVars, peer, shallow, call_host, cacheVars>>

ShallowPeerFromAuthContext ==
  /\ ~aborted
  /\ ctx # nullptr
  /\ shallow = nullptr
  /\ shallow' = Ptr(grpc_shallow_peer_from_ssl_auth_context(Deref(ctx)))
  /\ UNCHANGED <<rootVars, aborted, clientVars, peer, ctx, call_host, cacheVars>>

\* grpc_shallow_peer_destruct(peer): only the array is freed.
ShallowPeerDestruct ==
  /\ ~aborted
  /\ shallow # nullptr
  /\ shallow' = nullptr
  /\ UNCHANGED <<rootVars, aborted, clientVars, peer, ctx, call_host, cacheVars>>

CheckCallHost(host, target_name, overridden_target_name, error_in) ==
  LET r == grpc_ssl_check_call_host(host, target_name, overridden_target_name,
                                    Deref(ctx), error_in)
  IN /\ ~aborted
     /\ ctx # nullptr
     /\ call_host' = Ptr([host |-> host, target_name |-> target_name,
                          overridden_target_name |-> overridden_target_name,
                          error_in |-> error_in, ret |-> r.ret,
                          error |-> r.error])
     /\ UNCHANGED <<rootVars, aborted, clientVars, peer, ctx, shallow, cacheVars>>

PeerNames ==
  {nullptr,
   Ptr(TSI_X509_SUBJECT_COMMON_NAME_PEER_PROPERTY),
   Ptr(TSI_X509_SUBJECT_ALTERNATIVE_NAME_PEER_PROPERTY),
   Ptr(TSI_X509_PEM_CERT_PROPERTY),
   Ptr(TSI_SSL_SESSION_REUSED_PEER_PROPERTY),
   Ptr(GRPC_X509_CN_PROPERTY_NAME)}      \* not a name the loop recognises
PeerValues == {<<"a">>, <<"b">>}
\* the two name properties take either value, the others one value
PeerProperties ==
  {p \in [name : PeerNames, value : PeerValues] :
     \/ p.name \in {Ptr(TSI_X509_SUBJECT_COMMON_NAME_PEER_PROPERTY),
                     Ptr(TSI_X509_SUBJECT_ALTERNATIVE_NAME_PEER_PROPERTY)}
     \/ p.value = <<"b">>}
Peers == UNION {[1 .. n -> PeerProperties] : n \in 0 .. MaxProps}
Hosts == {<<>>, <<"a">>, <<"a", ":", "8">>, <<"b", "%", "z">>}
TargetNames == {<<"a">>}
OverriddenTargetNames == {<<>>, <<"o">>}
ErrorsIn == {GRPC_ERROR_NONE, "error set by the caller"}

InitPeer ==
  /\ RootInitFixed
  /\ aborted = FALSE
  /\ ClientInitFixed
  /\ peer \in Peers
  /\ ctx = nullptr
  /\ shallow = nullptr
  /\ call_host = nullptr
  /\ CacheInitFixed

NextPeer ==
  \/ PeerToAuthContext
  \/ ShallowPeerFromAuthContext
  \/ ShallowPeerDestruct
  \/ \E h \in Hosts, tn \in TargetNames, o \in OverriddenTargetNames,
        e \in ErrorsIn : CheckCallHost(h, tn, o, e)

SpecPeer == InitPeer /\ [][NextPeer]_vars

(* ========================== session cache ============================= *)
\* tsi_ssl_session_cache_create_lru(capacity): a cache holding one reference.
tsi_ssl_session_cache_create_lru(capacity) == 1

\* tsi_ssl_session_cache_ref(cache): one more reference, atomically.
tsi_ssl_session_cache_ref(refs) == refs + 1

\* tsi_ssl_session_cache_unref(cache): one reference less, atomically; the
\* cache is released when none is left.
tsi_ssl_session_cache_unref(refs) == refs - 1

\* The creator's reference is holder 0, the channel arg copies are 1, 2, ...
Creator == 0
CacheCreated == cache_capacity > 0

\* grpc_ssl_session_cache_create_lru(capacity)
grpc_ssl_session_cache_create_lru(capacity) ==
  /\ ~CacheCreated
  /\ cache_capacity' = capacity
  /\ cache_refs' = tsi_ssl_session_cache_create_lru(capacity)
  /\ holders' = {Creator}
  /\ UNCHANGED <<rootVars, aborted, clientVars, peerVars, cache_released,
                 copies, use_after_free, cmp_log>>

\* Variant: the copy would take no reference.
RefsAfterCopy_no_ref(refs) == refs

\* grpc_ssl_session_cache_arg_copy: tsi_ssl_session_cache_ref(tsi_cache)
RefsAfterCopy(refs) == tsi_ssl_session_cache_ref(refs)

\* grpc_ssl_session_cache_arg_destroy / grpc_ssl_session_cache_destroy:
\* tsi_ssl_session_cache_unref(tsi_cache)
RefsAfterDestroy(refs) == tsi_ssl_session_cache_unref(refs)

\* grpc_ssl_session_cache_arg_copy(p), called through the vtable of an arg
\* whose pointer holder h keeps alive; the copy is a new holder.
grpc_ssl_session_cache_arg_copy(h) ==
  /\ CacheCreated
  /\ h \in holders
  /\ copies < MaxCopies
  /\ copies' = copies + 1
  /\ holders' = holders \cup {copies + 1}
  /\ cache_refs' = RefsAfterCopy(cache_refs)
  /\ use_after_free' = (use_after_free \/ cache_released > 0)
  /\ UNCHANGED <<rootVars, aborted, clientVars, peerVars, cache_released,
                 cache_capacity, cmp_log>>

\* The unref both destroy functions perform, by holder h.
Unref(h) ==
  /\ h \in holders
  /\ holders' = holders \ {h}
  /\ cache_refs' = RefsAfterDestroy(cache_refs)
  /\ cache_released' = IF cache_refs' = 0 THEN cache_released + 1
                        ELSE cache_released
  /\ use_after_free' = (use_after_free \/ cache_released > 0)
  /\ UNCHANGED <<rootVars, aborted, clientVars, peerVars, cache_capacity,
                 copies, cmp_log>>

\* grpc_ssl_session_cache_destroy(cache), by the creator
grpc_ssl_session_cache_destroy == Unref(Creator)

\* grpc_ssl_session_cache_arg_destroy(p), by the holder of a copy
grpc_ssl_session_cache_arg_destroy(h) == h # Creator /\ Unref(h)

\* GPR_ICMP(p, q) on the two pointers
grpc_ssl_session_cache_arg_cmp(p, q) ==
  IF p < q THEN -1 ELSE IF p > q THEN 1 ELSE 0

\* The vtable's cmp, on the cache's address and another pointer.
CacheAddress == 2
ArgCmp(q) ==
  /\ CacheCreated
  /\ holders # {}
  /\ cmp_log' = Ptr([other |-> q,
                     result |-> grpc_ssl_session_cache_arg_cmp(CacheAddress, q)])
  /\ UNCHANGED <<rootVars, aborted, clientVars, peerVars, cache_refs,
                 cache_released, cache_capacity, holders, copies,
                 use_after_free>>

InitCache ==
  /\ RootInitFixed
  /\ aborted = FALSE
  /\ ClientInitFixed
  /\ PeerInitFixed
  /\ CacheInitFixed

NextCache ==
  \/ \E n \in 1 .. MaxCapacity : grpc_ssl_session_cache_create_lru(n)
  \/ \E h \in 0 .. MaxCopies : grpc_ssl_session_cache_arg_copy(h)
  \/ grpc_ssl_session_cache_destroy
  \/ \E h \in 1 .. MaxCopies : grpc_ssl_session_cache_arg_destroy(h)
  \/ \E q \in {CacheAddress - 1, CacheAddress, CacheAddress + 1} : ArgCmp(q)

SpecCache == InitCache /\ [][NextCache]_vars

(* ====================================================================== *)
(* Properties of the default root store                                    *)
(* ====================================================================== *)
LastCompute == Deref(compute_log)
Computed == compute_log # nullptr /\ ~LastCompute.assert_failed

\* C1: however the threads' calls of GetPemRootCerts and GetRootStore
\* interleave, the body InitRootStoreOnce runs at most once, a call returns
\* only after that one run has completed, every returned value equals the
\* value the store holds now (so all calls saw the same bytes and the same
\* handle and nothing changed them later), and the bytes are those of the
\* single ComputePemRootCerts run.
C1_InitExactlyOnce ==
  /\ init_runs <= 1
  /\ \A t \in Threads : pc[t] = "return" => (once = ONCE_DONE /\ init_runs = 1)
  /\ returned # {} => (once = ONCE_DONE /\ init_runs = 1)
  /\ \A r \in returned :
        r.val = IF r.op = GetPemRootCertsOp
                  THEN GetPemRootCerts_value(default_pem_root_certs_)
                  ELSE GetRootStore_value(default_root_store_)
  /\ once = ONCE_DONE =>
        (Computed /\ default_pem_root_certs_ = LastCompute.result)

\* Both accessors have returned, to calls made by more than one thread's
\* worth of calls, after a single initialisation that produced bytes.
C1_Witness ==
  /\ calls >= 3
  /\ init_runs = 1
  /\ \E r1, r2 \in returned :
        /\ r1.op = GetPemRootCertsOp /\ r1.val # nullptr
        /\ r2.op = GetRootStoreOp /\ r2.val # nullptr

FailPermanentlyCase ==
  /\ Computed
  /\ LastCompute.path = ""
  /\ LastCompute.cb # nullptr
  /\ Deref(LastCompute.cb).res = GRPC_SSL_ROOTS_OVERRIDE_FAIL_PERMANENTLY

\* C2 as stated: with an empty configured path and a callback that returns
\* fail-permanently the resolved bytes are empty, whatever the OS trust
\* store and the installed file hold.
C2_Original_EmptyOnFailPermanently ==
  FailPermanentlyCase => GRPC_SLICE_IS_EMPTY(LastCompute.result)

\* C2 amended: with an empty configured path and a callback that returns
\* fail-permanently the installed file is never used: the resolved bytes
\* are what the OS trust store yields when it is enabled, and empty when it
\* is disabled (so empty whenever the OS store is disabled or yields nothing).
C2_FailPermanentlySkipsInstalledOnly ==
  FailPermanentlyCase =>
    LastCompute.result =
      IF LastCompute.not_use_system_roots THEN grpc_empty_slice
      ELSE LoadSystemRootCerts(LastCompute.sys)

C2_Witness ==
  /\ FailPermanentlyCase
  /\ LastCompute.files[installed_roots_path] # nullptr
  /\ GRPC_SLICE_IS_EMPTY(LastCompute.result)

\* Position of a source in the fixed order.
SrcOrder == <<SrcConfigured, SrcOverride, SrcSystem, SrcInstalled>>
Tried(src) == \E i \in 1 .. Len(LastCompute.tried) : LastCompute.tried[i] = src
AllEarlierEmpty(i) ==
  \A j \in 1 .. (i - 1) : GRPC_SLICE_IS_EMPTY(LastCompute.got[j])
EarlierThan(src) ==
  { j \in 1 .. Len(LastCompute.tried) :
      \E a, b \in 1 .. 4 : /\ SrcOrder[a] = LastCompute.tried[j]
                            /\ SrcOrder[b] = src /\ a < b }
NothingBefore(src) ==
  \A j \in EarlierThan(src) : GRPC_SLICE_IS_EMPTY(LastCompute.got[j])
FirstNonEmpty(got) ==
  IF \E i \in 1 .. Len(got) : ~GRPC_SLICE_IS_EMPTY(got[i])
    THEN got[CHOOSE i \in 1 .. Len(got) :
               /\ ~GRPC_SLICE_IS_EMPTY(got[i])
               /\ \A j \in 1 .. (i - 1) : GRPC_SLICE_IS_EMPTY(got[j])]
    ELSE grpc_empty_slice

\* C3: the sources are tried in the order configured file, override
\* callback, OS trust store, installed file; a source is tried only if all
\* sources tried before it left no bytes; the configured file exactly when
\* the path is non-empty; the callback exactly when nothing came before and
\* one is registered; the OS store exactly when nothing came before and the
\* flag does not disable it (fail-permanently does not skip it); the
\* installed file exactly when nothing came before and the callback did not
\* return fail-permanently.  The result is the first non-empty yield.
C3_FallbackOrder ==
  Computed =>
    /\ \A i, j \in 1 .. Len(LastCompute.tried) :
          i < j => \E a, b \in 1 .. 4 : /\ SrcOrder[a] = LastCompute.tried[i]
                                        /\ SrcOrder[b] = LastCompute.tried[j]
                                        /\ a < b
    /\ \A i \in 1 .. Len(LastCompute.tried) : AllEarlierEmpty(i)
    /\ Tried(SrcConfigured) <=> LastCompute.path # ""
    /\ Tried(SrcOverride) <=>
          (NothingBefore(SrcOverride) /\ LastCompute.cb # nullptr)
    /\ Tried(SrcSystem) <=>
          (NothingBefore(SrcSystem) /\ ~LastCompute.not_use_system_roots)
    /\ Tried(SrcInstalled) <=>
          (NothingBefore(SrcInstalled)
           /\ ~(Tried(SrcOverride) /\ LastCompute.ovrd_res =
                                        GRPC_SSL_ROOTS_OVERRIDE_FAIL_PERMANENTLY))
    /\ LastCompute.result = FirstNonEmpty(LastCompute.got)

\* The callback returned fail-permanently and the OS trust store was still
\* consulted and gave the result.
C3_Witness ==
  /\ Computed
  /\ LastCompute.tried = <<SrcConfigured, SrcOverride, SrcSystem>>
  /\ LastCompute.ovrd_res = GRPC_SSL_ROOTS_OVERRIDE_FAIL_PERMANENTLY
  /\ ~GRPC_SLICE_IS_EMPTY(LastCompute.result)

InstalledOnlyCase ==
  /\ Computed
  /\ LastCompute.path = ""
  /\ LastCompute.cb = nullptr
  /\ ~LastCompute.not_use_system_roots
  /\ LastCompute.files[installed_roots_path] # nullptr

\* C4 as stated: empty path, no callback, OS trust store enabled, installed
\* file present: the resolved bytes are the installed file's bytes.
C4_Original_InstalledBytes ==
  InstalledOnlyCase =>
    LastCompute.result = grpc_load_file(LastCompute.files, installed_roots_path, 1)

\* C4 amended: empty path, no callback, OS trust store enabled but yielding
\* no bytes, installed file present: the resolved bytes are the installed
\* file's bytes as grpc_load_file returns them (NUL-terminated).
C4_InstalledBytesWhenSystemEmpty ==
  (InstalledOnlyCase /\ GRPC_SLICE_IS_EMPTY(LoadSystemRootCerts(LastCompute.sys))) =>
    LastCompute.result = grpc_load_file(LastCompute.files, installed_roots_path, 1)

C4_Witness ==
  /\ InstalledOnlyCase
  /\ GRPC_SLICE_IS_EMPTY(LoadSystemRootCerts(LastCompute.sys))
  /\ LastCompute.tried = <<SrcSystem, SrcInstalled>>
  /\ LastCompute.result = <<3, NUL>>

LastClientCall == Deref(client_call)

\* C8: a call without explicit roots returns an error without calling the
\* engine exactly when the process-default bytes are empty; a call with
\* explicit roots hands exactly those roots and no store handle to the
\* engine and leaves the default root store's once untouched; the call
\* returns OK only if the engine was called and returned TSI_OK.
C8_ClientFactoryInit ==
  client_call # nullptr =>
    /\ LastClientCall.pem_root_certs = nullptr =>
          /\ once = ONCE_DONE
          /\ (LastClientCall.status = GRPC_SECURITY_ERROR
               /\ ~LastClientCall.engine_called)
             <=> GRPC_SLICE_IS_EMPTY(default_pem_root_certs_)
          /\ LastClientCall.engine_called =>
                /\ Deref(LastClientCall.options).pem_root_certs =
                     Ptr(default_pem_root_certs_)
                /\ Deref(LastClientCall.options).root_store = default_root_store_
    /\ LastClientCall.pem_root_certs # nullptr =>
          /\ LastClientCall.engine_called
          /\ Deref(LastClientCall.options).pem_root_certs =
               LastClientCall.pem_root_certs
          /\ Deref(LastClientCall.options).root_store = nullptr
          /\ once = LastClientCall.once_before
    /\ LastClientCall.status = GRPC_SECURITY_OK =>
          /\ LastClientCall.engine_called
          /\ LastClientCall.engine_result = Ptr(TSI_OK)

\* A call without explicit roots failed before reaching the engine because
\* the default roots resolved to nothing.
C8_Witness ==
  /\ client_call # nullptr
  /\ LastClientCall.pem_root_certs = nullptr
  /\ LastClientCall.once_before = GPR_ONCE_INIT
  /\ LastClientCall.status = GRPC_SECURITY_ERROR
  /\ ~LastClientCall.engine_called
  /\ GRPC_SLICE_IS_EMPTY(default_pem_root_certs_)

(* ====================================================================== *)
(* Properties of the peer / auth context conversions                       *)
(* ====================================================================== *)
HasPeerProperty(name) == \E i \in 1 .. Len(peer) : peer[i].name = Ptr(name)
CtxHasProperty(name) ==
  \E i \in 1 .. Len(Deref(ctx).properties) : Deref(ctx).properties[i].name = name
RoundTripNames ==
  {Ptr(TSI_X509_SUBJECT_ALTERNATIVE_NAME_PEER_PROPERTY),
   Ptr(TSI_X509_SUBJECT_COMMON_NAME_PEER_PROPERTY),
   Ptr(TSI_X509_PEM_CERT_PROPERTY)}
IsRoundTripProperty(p) == p.name \in RoundTripNames

\* C5: the context built from a peer designates SAN as the identity when the
\* peer has a subject alternative name (wherever it stands in the list), CN
\* when it has a common name and no subject alternative name, and nothing
\* when it has neither; a designated name is the name of a property of the
\* context.
C5_IdentityDesignation ==
  ctx # nullptr =>
    /\ HasPeerProperty(TSI_X509_SUBJECT_ALTERNATIVE_NAME_PEER_PROPERTY) =>
          Deref(ctx).peer_identity_property_name = Ptr(GRPC_X509_SAN_PROPERTY_NAME)
    /\ (HasPeerProperty(TSI_X509_SUBJECT_COMMON_NAME_PEER_PROPERTY)
         /\ ~HasPeerProperty(TSI_X509_SUBJECT_ALTERNATIVE_NAME_PEER_PROPERTY)) =>
          Deref(ctx).peer_identity_property_name = Ptr(GRPC_X509_CN_PROPERTY_NAME)
    /\ (~HasPeerProperty(TSI_X509_SUBJECT_COMMON_NAME_PEER_PROPERTY)
         /\ ~HasPeerProperty(TSI_X509_SUBJECT_ALTERNATIVE_NAME_PEER_PROPERTY)) =>
          Deref(ctx).peer_identity_property_name = nullptr
    /\ Deref(ctx).peer_identity_property_name # nullptr =>
          CtxHasProperty(Deref(Deref(ctx).peer_identity_property_name))

\* A subject alternative name followed by a common name: SAN stays designated.
C5_Witness ==
  /\ ctx # nullptr
  /\ Len(peer) >= 2
  /\ peer[1].name = Ptr(TSI_X509_SUBJECT_ALTERNATIVE_NAME_PEER_PROPERTY)
  /\ peer[2].name = Ptr(TSI_X509_SUBJECT_COMMON_NAME_PEER_PROPERTY)
  /\ Deref(ctx).peer_identity_property_name = Ptr(GRPC_X509_SAN_PROPERTY_NAME)

\* C6: the shallow peer rebuilt from the context of a peer holds exactly the
\* SAN, CN and PEM-cert properties of the peer: same names, same values,
\* same order, same multiplicity, and nothing else (no session-reused
\* property, no transport security type, no unrecognised or unnamed
\* property); it fits the array allocated for it.
C6_RoundTrip ==
  (ctx # nullptr /\ shallow # nullptr) =>
    /\ Deref(shallow).properties = SelectSeq(peer, IsRoundTripProperty)
    /\ Deref(shallow).property_count = Len(Deref(shallow).properties)
    /\ Deref(shallow).property_count <= Deref(shallow).allocated

\* A peer with a session-reused property between two kept properties.
C6_Witness ==
  /\ shallow # nullptr
  /\ Len(peer) = 3
  /\ peer[1].name = Ptr(TSI_X509_SUBJECT_COMMON_NAME_PEER_PROPERTY)
  /\ peer[2].name = Ptr(TSI_SSL_SESSION_REUSED_PEER_PROPERTY)
  /\ peer[3].name = Ptr(TSI_X509_SUBJECT_COMMON_NAME_PEER_PROPERTY)
  /\ Deref(shallow).property_count = 2

LastCallHost == Deref(call_host)
HostAccepted ==
  \/ grpc_ssl_host_matches_name(
        grpc_shallow_peer_from_ssl_auth_context(Deref(ctx)).properties,
        LastCallHost.host) # 0
  \/ /\ LastCallHost.overridden_target_name # <<>>
     /\ LastCallHost.host = LastCallHost.target_name

\* C9: grpc_ssl_check_call_host returns true for every input; it stores the
\* mismatch error in *error exactly when the host neither matches the peer
\* rebuilt from the auth context nor equals the target name under a
\* non-empty overridden target name, and otherwise leaves *error as it was.
C9_CheckCallHost ==
  call_host # nullptr =>
    /\ LastCallHost.ret = TRUE
    /\ ~HostAccepted => LastCallHost.error = CallHostMismatchError
    /\ HostAccepted => LastCallHost.error = LastCallHost.error_in

\* A rejected host: the error is stored and the call still returns true.
C9_Witness ==
  /\ call_host # nullptr
  /\ ~HostAccepted
  /\ LastCallHost.error_in = GRPC_ERROR_NONE
  /\ LastCallHost.error = CallHostMismatchError
  /\ LastCallHost.ret = TRUE

(* ====================================================================== *)
(* Properties of the session cache handle                                  *)
(* ====================================================================== *)
\* C7: whatever the interleaving of the copies and of the destroys made by
\* holders of a reference, the reference count is the number of holders and
\* never negative, the cache is released at most once, it has been released
\* exactly when every holder (the creator and each copy) has destroyed its
\* reference, and no copy or destroy touches it after the release.
C7_ReleasedOnceAtLastDestroy ==
  /\ cache_refs >= 0
  /\ cache_refs = Cardinality(holders)
  /\ cache_released <= 1
  /\ cache_released = 1 <=> (CacheCreated /\ holders = {})
  /\ ~use_after_free

\* Three copies were made and all four references destroyed: one release.
C7_Witness ==
  /\ copies >= 3
  /\ holders = {}
  /\ cache_refs = 0
  /\ cache_released = 1

====
